---- MODULE Spec2Model ----
(***************************************************************************)
(* Retrieval-augmented chat backend: the Answer Gate of                    *)
(* LLMService.process_query_with_context, the HTTP chat endpoints, the     *)
(* realtime (WebSocket) session handling and the ConnectionManager of      *)
(* app/main.py, and the chunking, embedding, storing and tenant-filtered   *)
(* querying of VectorStoreService.                                         *)
(*                                                                         *)
(* Text is a sequence of one-character strings, so that trimming and       *)
(* lowercasing are computed.  An answer is a sequence of text pieces (the  *)
(* pieces of an f-string), so that every answer has the same shape.        *)
(* A function that calls an upstream service is an operator yielding the   *)
(* SET of its possible results, one per upstream outcome.                  *)
(***************************************************************************)
EXTENDS Integers, Sequences, FiniteSets, TLC

VARIABLES
    active_connections, \* ConnectionManager.active_connections (a list)
    ws_pc,              \* per connection: where its websocket_endpoint coroutine stands
    ws_msg,             \* per connection: the user_message being handled
    ws_out,             \* per connection: the types of the frames handed to send_text for the current inbound frame
    send_failed,        \* the connections whose socket has raised in send_text and whose handler has not ended
    last                \* the most recent request: its inputs, upstream calls and response

vars == <<active_connections, ws_pc, ws_msg, ws_out, send_failed, last>>

----------------------------------------------------------------------------
(* Bounds of the model *)

\* longest query drawn over the small alphabet
MaxQueryLen == 4
\* number of realtime connections
NumConns == 2
\* largest number of vectors in the store
MaxStoreLen == 6
\* longest text given to chunk_text
MaxTextLen == 5
\* largest chunk size given to chunk_text
MaxChunkSize == 6
\* largest number of texts given to get_embeddings in one call
MaxBatchLen == 3
\* number of calls of broadcast
MaxBroadcasts == 2

----------------------------------------------------------------------------
(* Text: str.lower(), str.strip(), len() *)

UpperCase == <<"A","B","C","D","E","F","G","H","I","J","K","L","M",
               "N","O","P","Q","R","S","T","U","V","W","X","Y","Z">>
LowerCase == <<"a","b","c","d","e","f","g","h","i","j","k","l","m",
               "n","o","p","q","r","s","t","u","v","w","x","y","z">>

Whitespace == {" ", "\t", "\n"}

LowerChar(c) ==
    IF \E i \in 1..Len(UpperCase) : UpperCase[i] = c
    THEN LowerCase[CHOOSE i \in 1..Len(UpperCase) : UpperCase[i] = c]
    ELSE c

\* str.lower()
Lower(s) == [i \in 1..Len(s) |-> LowerChar(s[i])]

\* str.lstrip(): drop the leading whitespace
RECURSIVE LStrip(_)
LStrip(s) ==
    IF s # <<>> /\ Head(s) \in Whitespace THEN LStrip(Tail(s)) ELSE s

\* str.rstrip(): drop the trailing whitespace
RECURSIVE RStrip(_)
RStrip(s) ==
    IF s # <<>> /\ s[Len(s)] \in Whitespace
    THEN RStrip(SubSeq(s, 1, Len(s) - 1))
    ELSE s

\* str.strip()
Strip(s) == RStrip(LStrip(s))

\* n copies of character c
Rep(c, n) == [i \in 1..n |-> c]

\* all texts over alphabet A of length at most n
RECURSIVE TextsUpTo(_, _)
TextsUpTo(A, n) ==
    IF n = 0 THEN {<<>>}
    ELSE LET shorter == TextsUpTo(A, n - 1)
         IN  shorter \cup {Append(s, c) : s \in {t \in shorter : Len(t) = n - 1}, c \in A}

----------------------------------------------------------------------------
(* LLMService: the Answer Gate *)

\* llm_service.py:79-83
pure_greetings == <<
    <<"h","e","l","l","o">>,
    <<"h","i">>,
    <<"h","e","y">>,
    <<"g","r","e","e","t","i","n","g","s">>,
    <<"g","o","o","d"," ","m","o","r","n","i","n","g">>,
    <<"g","o","o","d"," ","a","f","t","e","r","n","o","o","n">>,
    <<"g","o","o","d"," ","e","v","e","n","i","n","g">>,
    <<"h","o","w"," ","a","r","e"," ","y","o","u">>,
    <<"h","o","w"," ","d","o"," ","y","o","u"," ","d","o">> >>

\* llm_service.py:76
query_lower(query) == Strip(Lower(query))

\* a greeting recognised wherever the query starts with it
is_pure_greeting_prefix(query) ==
    LET q == query_lower(query)
    IN  \E i \in 1..Len(pure_greetings) :
            /\ Len(q) >= Len(pure_greetings[i])
            /\ SubSeq(q, 1, Len(pure_greetings[i])) = pure_greetings[i]

\* llm_service.py:86-90
is_pure_greeting(query) ==
    LET q == query_lower(query)
    IN  \E i \in 1..Len(pure_greetings) :
            \/ q = pure_greetings[i]
            \/ q = pure_greetings[i] \o <<"!">>

\* llm_service.py:108 (the threshold of a meaningful chunk)
MinMeaningfulLen == 20

\* every chunk counted as meaningful, whatever its length
meaningful_chunks_all(relevant_chunks) == relevant_chunks

\* llm_service.py:108
meaningful_chunks(relevant_chunks) ==
    SelectSeq(relevant_chunks, LAMBDA chunk : Len(Strip(chunk)) > MinMeaningfulLen)

\* datetime.now().hour: the readings on both sides of each change of salutation
Hours == {11, 12, 16, 17}

\* llm_service.py:144-150
time_greeting(current_hour) ==
    IF current_hour < 12 THEN "Good morning"
    ELSE IF current_hour < 17 THEN "Good afternoon"
    ELSE "Good evening"

\* llm_service.py:152-158
greetings(tg) == <<
    <<tg, "! How can I help you today?">>,
    <<"Hello! ", tg, "! I'm here to assist you. What would you like to know?">>,
    <<"Hi there! ", tg, "! How can I be of service today?">>,
    <<"Greetings! ", tg, "! What can I help you with?">>,
    <<"Hello! ", tg, "! I'm ready to help. What do you need assistance with?">> >>

\* llm_service.py:138-160: one answer per clock reading and random.choice
_generate_greeting_response ==
    {[hour |-> h, answer |-> greetings(time_greeting(h))[k]] : h \in Hours, k \in 1..5}

\* llm_service.py:162-164
_generate_no_context_response == <<"No context found for your query.">>

\* the texts the completion call may return (the prompt asks for the
\* no-context literal when the context does not answer the question)
CompletionReplies == {<<"A1">>, <<"No context found for your query.">>}

\* the texts the translation call may return
TranslationReplies == {<<"T1">>, <<"A1">>}

\* the raw contents the language-detection call may return
DetectReplies == {
    <<"E","n","g","l","i","s","h">>,
    <<" ","e","n","g","l","i","s","h","\n">>,
    <<"E","N">>,
    <<"F","r","e","n","c","h">> }

\* llm_service.py:255
Unknown == <<"U","n","k","n","o","w","n">>

\* the result of one call of process_query_with_context: the terminal state of
\* the gate, the LLM calls made in order, whether it raised, the answer
\* returned, what the LLM calls returned (<<>> where a call was not made or
\* failed) and which of them failed
GateResult(gate, calls, raised, answer, completion, language, translation, failed, hour) ==
    [gate |-> gate, calls |-> calls, raised |-> raised, answer |-> answer,
     completion |-> completion, language |-> language, translation |-> translation,
     failed |-> failed, hour |-> hour]

\* llm_service.py:28-70: raises on upstream failure, else the completion text
generate_response ==
    {[raised |-> TRUE, text |-> <<>>]}
        \cup {[raised |-> FALSE, text |-> t] : t \in CompletionReplies}

\* llm_service.py:220-255: the stripped upstream content, "Unknown" on failure
_detect_language ==
    {[failed |-> TRUE, language |-> Unknown]}
        \cup {[failed |-> FALSE, language |-> Strip(r)] : r \in DetectReplies}

\* llm_service.py:166-218: raises on upstream failure, else the translation
translate_content ==
    {[raised |-> TRUE, translated_content |-> <<>>]}
        \cup {[raised |-> FALSE, translated_content |-> t] : t \in TranslationReplies}

\* the comparison made without lowercasing the detected language
needs_translation_case_sensitive(query_language) ==
    /\ query_language # <<"e","n","g","l","i","s","h">>
    /\ query_language # <<"e","n">>

\* llm_service.py:126
needs_translation(query_language) ==
    /\ Lower(query_language) # <<"e","n","g","l","i","s","h">>
    /\ Lower(query_language) # <<"e","n">>

\* the names of the calls that failed
FailedCalls(detect_failed, translate_failed) ==
    (IF detect_failed THEN {"detect_language"} ELSE {})
        \cup (IF translate_failed THEN {"translate"} ELSE {})

\* a translation failure that propagates out of process_query_with_context
language_normalization_raising(ai_response, detected) ==
    IF needs_translation(detected.language)
    THEN {IF tr.raised
          THEN GateResult("GENERATE", <<"complete", "detect_language", "translate">>,
                          TRUE, <<>>, ai_response, detected.language, <<>>,
                          FailedCalls(detected.failed, TRUE), -1)
          ELSE GateResult("GENERATE", <<"complete", "detect_language", "translate">>,
                          FALSE, tr.translated_content, ai_response, detected.language,
                          tr.translated_content, FailedCalls(detected.failed, FALSE), -1)
            : tr \in translate_content}
    ELSE {GateResult("GENERATE", <<"complete", "detect_language">>,
                     FALSE, ai_response, ai_response, detected.language, <<>>,
                     FailedCalls(detected.failed, FALSE), -1)}

\* llm_service.py:126-136
language_normalization(ai_response, detected) ==
    IF needs_translation(detected.language)
    THEN {IF tr.raised
          THEN GateResult("GENERATE", <<"complete", "detect_language", "translate">>,
                          FALSE, ai_response, ai_response, detected.language, <<>>,
                          FailedCalls(detected.failed, TRUE), -1)
          ELSE GateResult("GENERATE", <<"complete", "detect_language", "translate">>,
                          FALSE, tr.translated_content, ai_response, detected.language,
                          tr.translated_content, FailedCalls(detected.failed, FALSE), -1)
            : tr \in translate_content}
    ELSE {GateResult("GENERATE", <<"complete", "detect_language">>,
                     FALSE, ai_response, ai_response, detected.language, <<>>,
                     FailedCalls(detected.failed, FALSE), -1)}

\* llm_service.py:72-136: every result the call can have
process_query_with_context(query, relevant_chunks) ==
    IF is_pure_greeting(query)
    THEN {GateResult("GREETING", <<>>, FALSE, g.answer, <<>>, <<>>, <<>>, {}, g.hour)
            : g \in _generate_greeting_response}
    ELSE IF relevant_chunks = <<>>
    THEN {GateResult("NO_CONTEXT", <<>>, FALSE, _generate_no_context_response,
                     <<>>, <<>>, <<>>, {}, -1)}
    ELSE IF meaningful_chunks(relevant_chunks) = <<>>
    THEN {GateResult("NO_CONTEXT", <<>>, FALSE, _generate_no_context_response,
                     <<>>, <<>>, <<>>, {}, -1)}
    ELSE \* llm_service.py:114-136
         UNION {
        IF c.raised
        THEN {GateResult("GENERATE", <<"complete">>, TRUE, <<>>, <<>>, <<>>, <<>>,
                         {"complete"}, -1)}
        ELSE UNION {language_normalization(c.text, d) : d \in _detect_language}
          : c \in generate_response}

----------------------------------------------------------------------------
(* Values: Optional[...] and parsed JSON *)

None == [none |-> TRUE]
Some(x) == [none |-> FALSE, v |-> x]

\* parsed JSON values; a text is a JSON string held as characters, a name is a
\* JSON string held whole (the values of the "type" key)
JNull == [t |-> "null"]
JArray == [t |-> "array"]
JNumber(n) == [t |-> "number", n |-> n]
JName(s) == [t |-> "name", s |-> s]
JText(s) == [t |-> "text", s |-> s]
JObject(fields) == [t |-> "object", fields |-> fields]

\* what a client puts on the wire: a payload that json.loads rejects, or the
\* serialisation of a JSON value
NotJson == [json |-> FALSE]
Json(v) == [json |-> TRUE, value |-> v]

\* json.loads: raises JSONDecodeError or returns the parsed value
json_loads(data) ==
    IF data.json
    THEN [raised |-> FALSE, value |-> data.value]
    ELSE [raised |-> TRUE, value |-> JNull]

\* dict.get(key, default)
Get(message, key, default) ==
    IF key \in DOMAIN message.fields THEN message.fields[key] ELSE default

\* str(value) inside an f-string
Format(value) ==
    IF value.t = "null" THEN "None"
    ELSE IF value.t = "number" THEN ToString(value.n)
    ELSE value.s

----------------------------------------------------------------------------
(* Retrieval: get_embeddings, query_vectors and the extraction of chunks *)

\* chunk texts around the meaningful-length threshold
ShortChunk == Rep("a", MinMeaningfulLen)
PaddedChunk == <<" ">> \o Rep("a", MinMeaningfulLen) \o <<"\n">>
LongChunk == Rep("a", MinMeaningfulLen + 1)

\* one entry of the "vectors" list of an index reply
VectorData(chunk) == [key |-> "k", metadata |-> [chunk_text |-> chunk]]
VectorNoMetadata == [key |-> "k"]
VectorNoChunkText == [key |-> "k", metadata |-> [title |-> "t"]]

\* the replies of the index to a query
SearchResults == {
    [ResponseMetadata |-> "m"],
    [vectors |-> <<VectorNoMetadata, VectorNoChunkText>>],
    [vectors |-> <<VectorData(PaddedChunk), VectorNoMetadata>>],
    [vectors |-> <<VectorData(ShortChunk), VectorData(LongChunk)>>] }

\* chat.py:53-57, chat.py:146-150, main.py:241-245 (the loop over the entries)
RECURSIVE chunk_texts(_)
chunk_texts(vectors) ==
    IF vectors = <<>> THEN <<>>
    ELSE LET vector_data == Head(vectors)
         IN  IF /\ "metadata" \in DOMAIN vector_data
                /\ "chunk_text" \in DOMAIN vector_data.metadata
             THEN <<vector_data.metadata.chunk_text>> \o chunk_texts(Tail(vectors))
             ELSE chunk_texts(Tail(vectors))

\* chat.py:52-57, chat.py:145-150, main.py:240-245
relevant_chunks_of(search_results) ==
    IF "vectors" \in DOMAIN search_results
    THEN chunk_texts(search_results.vectors)
    ELSE <<>>

\* chat.py:41-57, chat.py:134-150, main.py:229-245: embed the query, query the
\* index, extract the chunks; one result per upstream outcome
Retrieve ==
    {[failed |-> "get_embeddings", calls |-> <<"get_embeddings">>,
      relevant_chunks |-> <<>>],
     [failed |-> "query_vectors", calls |-> <<"get_embeddings", "query_vectors">>,
      relevant_chunks |-> <<>>]}
    \cup {[failed |-> "none", calls |-> <<"get_embeddings", "query_vectors">>,
           relevant_chunks |-> relevant_chunks_of(sr)] : sr \in SearchResults}

NoRetrieval == [failed |-> "none", calls |-> <<>>, relevant_chunks |-> <<>>]

\* the gate was not called
NoGate == GateResult("NONE", <<>>, FALSE, <<>>, <<>>, <<>>, <<>>, {}, -1)

----------------------------------------------------------------------------
(* The record of a request *)

\* what is returned to the client: a realtime frame or an HTTP response
Response(type, status, text, detail, transcript, audio_url, is_voice) ==
    [type |-> type, status |-> status, text |-> text, detail |-> detail,
     transcript |-> transcript, audio_url |-> audio_url, is_voice |-> is_voice]

NoResponse == Response("none", 0, <<>>, <<>>, None, None, FALSE)

\* realtime frames (main.py:146-151, 180-199, 211-217, 223-226, 254-259, 270-276)
ErrorFrame(message) == Response("error", 0, <<>>, message, None, None, FALSE)
PongFrame == Response("pong", 0, <<>>, <<>>, None, None, FALSE)
TypingFrame == Response("typing", 0, <<>>, <<>>, None, None, FALSE)
BotResponseFrame(text, is_voice) ==
    Response("bot_response", 0, text, <<>>, None, None, is_voice)

\* an error response whose detail ends with the text of the exception
HttpError_leaking(status, detail) ==
    Response("http_error", status, <<>>, detail \o <<"str(e)">>, None, None, FALSE)

\* an error response that turns every status into 500
HttpError_masked(status, detail) ==
    Response("http_error", 500, <<>>, <<"Failed to process chat request">>, None, None, FALSE)

\* HTTP responses (chat.py:25-30 and the HTTPException of chat.py:78, 96, 99, 131, 188)
HttpError(status, detail) == Response("http_error", status, <<>>, detail, None, None, FALSE)
HttpOk(answer, transcript, audio_url, is_voice) ==
    Response("http_ok", 200, answer, <<>>, transcript, audio_url, is_voice)

\* one request: the path it came by, its input, the user text that entered
\* the pipeline, the upstream calls made for it in order, the chunks
\* retrieved, the result of the gate, the step that failed ("none" if none
\* did) and the response
Request(path, input, query, calls, relevant_chunks, gate, failure, response) ==
    [path |-> path, input |-> input, query |-> query, calls |-> calls,
     relevant_chunks |-> relevant_chunks, gate |-> gate, failure |-> failure,
     response |-> response]

NoRequest == Request("none", None, <<>>, <<>>, <<>>, NoGate, "none", NoResponse)

----------------------------------------------------------------------------
(* HTTP: POST /api/v1/chat and POST /api/v1/message (chat.py) *)

\* the texts a client sends as a form field, a message body or a frame text
Greeting == <<"H","i","!">>
Question == <<"h","i"," ","x">>
Blank == <<" "," ">>

\* Python truthiness of an Optional[str]
Truthy(text) == ~text.none /\ text.v # <<>>

\* chat.py:25-30: the model requires "answer"; construction raises without it
ChatResponse(fields) ==
    IF "answer" \in DOMAIN fields
    THEN [raised |-> FALSE,
          response |-> HttpOk(fields.answer,
                              IF "transcript" \in DOMAIN fields THEN fields.transcript ELSE None,
                              IF "audio_url" \in DOMAIN fields THEN fields.audio_url ELSE None,
                              IF "is_voice" \in DOMAIN fields THEN fields.is_voice ELSE FALSE)]
    ELSE [raised |-> TRUE, response |-> NoResponse]

\* chat.py:32-78: every outcome of one POST /api/v1/message
send_message(message, is_voice) ==
    LET input == [message |-> message, is_voice |-> is_voice]
        failure(calls, chunks, g, step) ==
            Request("message", input, message, calls, chunks, g, step,
                    HttpError(500, <<"Failed to process message">>))
    IN  UNION {
          IF ret.failed # "none"
          THEN {failure(ret.calls, <<>>, NoGate, ret.failed)}
          ELSE {IF g.raised
                THEN failure(ret.calls \o g.calls, ret.relevant_chunks, g,
                             "process_query_with_context")
                ELSE LET built == ChatResponse([response |-> g.answer,
                                                is_voice |-> is_voice])
                     IN  IF built.raised
                         THEN failure(ret.calls \o g.calls, ret.relevant_chunks, g,
                                      "ChatResponse")
                         ELSE Request("message", input, message, ret.calls \o g.calls,
                                      ret.relevant_chunks, g, "none", built.response)
                  : g \in process_query_with_context(message, ret.relevant_chunks)}
            : ret \in Retrieve}

\* a response step in which a synthesis failure fails the request
chat_response_strict(ai_response, transcript, is_voice_input) ==
    IF is_voice_input
    THEN {[calls |-> <<"synthesize_speech">>, failed |-> "synthesize_speech",
           built |-> [raised |-> TRUE, response |-> NoResponse]],
          [calls |-> <<"synthesize_speech">>, failed |-> "none",
           built |-> ChatResponse([answer |-> ai_response, transcript |-> transcript,
                                   is_voice |-> is_voice_input,
                                   audio_url |-> Some("/static/audio/audio_id.mp3")])]}
    ELSE {[calls |-> <<>>, failed |-> "none",
           built |-> ChatResponse([answer |-> ai_response, transcript |-> transcript,
                                   is_voice |-> is_voice_input])]}

\* chat.py:160-182: the response of a request whose answer was produced; for
\* voice input the synthesis fails (170-179: logged, no audio_url) or succeeds
chat_response(ai_response, transcript, is_voice_input) ==
    IF is_voice_input
    THEN {[calls |-> <<"synthesize_speech">>, failed |-> "synthesize_speech",
           built |-> ChatResponse([answer |-> ai_response, transcript |-> transcript,
                                   is_voice |-> is_voice_input])],
          [calls |-> <<"synthesize_speech">>, failed |-> "none",
           built |-> ChatResponse([answer |-> ai_response, transcript |-> transcript,
                                   is_voice |-> is_voice_input,
                                   audio_url |-> Some("/static/audio/audio_id.mp3")])]}
    ELSE {[calls |-> <<>>, failed |-> "none",
           built |-> ChatResponse([answer |-> ai_response, transcript |-> transcript,
                                   is_voice |-> is_voice_input])]}

\* chat.py:133-188: the pipeline of POST /api/v1/chat once the user text is known
chat_pipeline(input, user_text, transcript, is_voice_input, calls) ==
    LET failure(cs, chunks, g, step) ==
            Request("chat", input, user_text, cs, chunks, g, step,
                    HttpError(500, <<"Failed to process chat request">>))
    IN  IF user_text = <<>>
        THEN {Request("chat", input, user_text, calls, <<>>, NoGate, "validation",
                      HttpError(400, <<"No text content found">>))}
        ELSE UNION {
          IF ret.failed # "none"
          THEN {failure(calls \o ret.calls, <<>>, NoGate, ret.failed)}
          ELSE UNION {
                IF g.raised
                THEN {failure(calls \o ret.calls \o g.calls, ret.relevant_chunks, g,
                              "process_query_with_context")}
                ELSE {IF r.built.raised
                      THEN failure(calls \o ret.calls \o g.calls \o r.calls,
                                   ret.relevant_chunks, g,
                                   IF r.failed # "none" THEN r.failed ELSE "ChatResponse")
                      ELSE \* a tolerated synthesis failure is kept as the failed step
                           Request("chat", input, user_text,
                                   calls \o ret.calls \o g.calls \o r.calls,
                                   ret.relevant_chunks, g, r.failed, r.built.response)
                        : r \in chat_response(g.answer, transcript, is_voice_input)}
                  : g \in process_query_with_context(user_text, ret.relevant_chunks)}
            : ret \in Retrieve}

\* audio_service.py:23-48: raises, or the stripped transcript
transcribe_audio ==
    {[raised |-> TRUE, transcript |-> <<>>]}
        \cup {[raised |-> FALSE, transcript |-> Strip(t)]
                : t \in {Greeting \o <<"\n">>, Question, Blank}}

\* chat.py:80-188: every outcome of one POST /api/v1/chat
chat(text, audio) ==
    LET input == [text |-> text, audio |-> audio]
    IN  IF ~Truthy(text) /\ audio.none
        THEN {Request("chat", input, <<>>, <<>>, <<>>, NoGate, "validation",
                      HttpError(400, <<"Either text or audio must be provided">>))}
        ELSE IF Truthy(text) /\ ~audio.none
        THEN {Request("chat", input, <<>>, <<>>, <<>>, NoGate, "validation",
                      HttpError(400, <<"Provide either text or audio, not both">>))}
        ELSE IF ~audio.none
        THEN \* saving the upload fails, or the transcription is attempted
             {Request("chat", input, <<>>, <<>>, <<>>, NoGate, "upload",
                      HttpError(500, <<"Failed to process chat request">>))}
             \cup UNION {
               IF tr.raised
               THEN {Request("chat", input, <<>>, <<"transcribe_audio">>, <<>>, NoGate,
                             "transcribe_audio",
                             HttpError(500, <<"Failed to process chat request">>))}
               ELSE chat_pipeline(input, tr.transcript, Some(tr.transcript), TRUE,
                                  <<"transcribe_audio">>)
                 : tr \in transcribe_audio}
        ELSE chat_pipeline(input, Strip(text.v), None, FALSE, <<>>)

\* the values of the text form field
FormTexts == {None, Some(<<>>), Some(Blank), Some(Greeting), Some(Question)}

\* the values of the audio form field
FormAudios == {None, Some("upload.webm")}

\* the values of the message field of a ChatMessage
MessageTexts == {Blank, Greeting, Question}

\* every outcome of every POST /api/v1/chat
ChatOutcomes == UNION {chat(text, audio) : text \in FormTexts, audio \in FormAudios}

\* every outcome of every POST /api/v1/message
MessageOutcomes ==
    UNION {send_message(message, is_voice) : message \in MessageTexts, is_voice \in BOOLEAN}

HttpChat ==
    /\ \E r \in ChatOutcomes : last' = r
    /\ UNCHANGED <<active_connections, ws_pc, ws_msg, ws_out, send_failed>>

HttpMessage ==
    /\ \E r \in MessageOutcomes : last' = r
    /\ UNCHANGED <<active_connections, ws_pc, ws_msg, ws_out, send_failed>>

----------------------------------------------------------------------------
(* The top-level exception handler (main.py:116-125) *)

\* str(exc) of the exceptions that reach the handler
Exceptions == {"division by zero", "password authentication failed for user admin"}

\* main.py:118-125: the JSONResponse of the handler
global_exception_handler(exc) ==
    [type |-> "http_error", status |-> 500, text |-> <<>>,
     detail |-> <<"Internal server error">>, transcript |-> None, audio_url |-> None,
     is_voice |-> FALSE,
     content |-> [detail |-> "Internal server error", error |-> exc]]

\* a request to a route that raises an exception no route handler catches
HttpUnhandled ==
    /\ \E exc \in Exceptions :
         last' = Request("unhandled", exc, <<>>, <<>>, <<>>, NoGate, "route",
                         global_exception_handler(exc))
    /\ UNCHANGED <<active_connections, ws_pc, ws_msg, ws_out, send_failed>>

----------------------------------------------------------------------------
(* The gate called directly, over many queries *)

Alphabet == {"h", "i", "H", " ", "!"}

ExampleQueries == {
    <<"h","e","l","l","o">>,
    <<"H","e","l","l","o","!">>,
    <<"h","e","l","l","o"," ","t","h","e","r","e">>,
    <<"H","O","W"," ","A","R","E"," ","Y","O","U">>,
    <<"g","o","o","d"," ","m","o","r","n","i","n","g","!">>,
    <<"h","e","y","?">>,
    <<"h","e","l","l","o","!","!">>,
    <<" ","g","r","e","e","t","i","n","g","s","\n">>,
    <<"h","o","w"," ","d","o"," ","y","o","u"," ","d","o">>,
    <<"s","a","y"," ","h","e","l","l","o">>,
    <<"G","o","o","d"," ","E","v","e","n","i","n","g">>,
    <<"g","o","o","d"," ","a","f","t","e","r","n","o","o","n">> }

GateQueries == TextsUpTo(Alphabet, MaxQueryLen) \cup ExampleQueries

GateChunkLists == {<<>>, <<PaddedChunk>>, <<ShortChunk, LongChunk>>}

\* a call about to be made: the arguments are in place, nothing has run
GateCall(query, chunks) ==
    Request("gate_call", None, query, <<>>, chunks, NoGate, "none", NoResponse)

\* llm_service.py:72-136 applied to the arguments drawn by InitGate
CallGate ==
    /\ last.path = "gate_call"
    /\ \E g \in process_query_with_context(last.query, last.relevant_chunks) :
         last' = Request("gate", None, last.query, g.calls, last.relevant_chunks, g,
                         IF g.raised THEN "process_query_with_context" ELSE "none",
                         NoResponse)
    /\ UNCHANGED <<active_connections, ws_pc, ws_msg, ws_out, send_failed>>

----------------------------------------------------------------------------
(* Realtime channel: ConnectionManager and the /ws endpoint (main.py) *)

Conns == 1..NumConns

\* list.remove(x): drops the first occurrence
RECURSIVE Remove(_, _)
Remove(list, x) ==
    IF list = <<>> THEN <<>>
    ELSE IF Head(list) = x THEN Tail(list)
    ELSE <<Head(list)>> \o Remove(Tail(list), x)

\* x in list
In(x, list) == \E i \in 1..Len(list) : list[i] = x

\* a disconnect that leaves the list as it is
disconnect_keeping(list, websocket) == list

\* main.py:39-42
disconnect(list, websocket) ==
    IF In(websocket, list) THEN Remove(list, websocket) ELSE list

\* what the handler of one inbound frame does up to its first suspension after
\* a send: the frames handed to send_text, where the coroutine goes on, and
\* the message it keeps
Step(out, pc, msg) == [out |-> out, pc |-> pc, msg |-> msg]

\* main.py:44-48: a failure of send_text is logged and swallowed, so the
\* caller goes on the same way whether or not the frame was delivered
Reply(frame) == Step(<<frame>>, "receive", JNull)

\* a handler that starts the pipeline without the typing indicator
handle_user_message_begin_silent(message) ==
    LET user_text == Get(message, "text", JText(<<>>))
    IN  IF user_text.t # "text"
        THEN Reply(ErrorFrame(<<"Failed to process message">>))
        ELSE IF Strip(user_text.s) = <<>>
        THEN Reply(ErrorFrame(<<"Empty message received">>))
        ELSE Step(<<>>, "typing", message)

\* main.py:202-226: handle_user_message up to the typing indicator
handle_user_message_begin(message) ==
    LET user_text == Get(message, "text", JText(<<>>))
    IN  IF user_text.t # "text"
        THEN \* .strip() of a value that is no string raises (main.py:268-276)
             Reply(ErrorFrame(<<"Failed to process message">>))
        ELSE IF Strip(user_text.s) = <<>>
        THEN Reply(ErrorFrame(<<"Empty message received">>))
        ELSE Step(<<TypingFrame>>, "typing", message)

\* a dispatch that treats every frame that is no ping as a user message
handle_websocket_message_eager(message) ==
    IF message.t # "object"
    THEN Reply(ErrorFrame(<<"Internal server error">>))
    ELSE LET message_type == Get(message, "type", JNull)
         IN  IF message_type = JName("ping")
             THEN Reply(PongFrame)
             ELSE handle_user_message_begin(message)

\* a dispatch without the try/except: the failure of .get on a payload that
\* is no object leaves the receive loop
handle_websocket_message_unguarded(message) ==
    IF message.t # "object"
    THEN Step(<<>>, "closed", JNull)
    ELSE LET message_type == Get(message, "type", JNull)
         IN  IF message_type = JName("user_message")
             THEN handle_user_message_begin(message)
             ELSE IF message_type = JName("ping")
             THEN Reply(PongFrame)
             ELSE Reply(ErrorFrame(<<"Unknown message type: ", Format(message_type)>>))

\* main.py:172-200
handle_websocket_message(message) ==
    IF message.t # "object"
    THEN \* .get of a value that is no dict raises (main.py:192-200)
         Reply(ErrorFrame(<<"Internal server error">>))
    ELSE LET message_type == Get(message, "type", JNull)
         IN  IF message_type = JName("user_message")
             THEN handle_user_message_begin(message)
             ELSE IF message_type = JName("ping")
             THEN Reply(PongFrame)
             ELSE Reply(ErrorFrame(<<"Unknown message type: ", Format(message_type)>>))

\* an endpoint that drops a payload it cannot parse without answering it
websocket_endpoint_receive_unanswered(data) ==
    LET parsed == json_loads(data)
    IN  IF parsed.raised
        THEN Step(<<>>, "receive", JNull)
        ELSE handle_websocket_message(parsed.value)

\* main.py:141-152: one turn of the receive loop
websocket_endpoint_receive(data) ==
    LET parsed == json_loads(data)
    IN  IF parsed.raised
        THEN Reply(ErrorFrame(<<"Invalid JSON format">>))
        ELSE handle_websocket_message(parsed.value)

\* main.py:247-251
ai_response(user_text, relevant_chunks) ==
    IF relevant_chunks # <<>>
    THEN process_query_with_context(user_text, relevant_chunks)
    ELSE {GateResult("NONE", <<>>, FALSE,
                     <<"I don't have enough information to answer your question. Please try rephrasing or ask about something else.">>,
                     <<>>, <<>>, <<>>, {}, -1)}

\* main.py:228-276: handle_user_message after the typing indicator; every outcome
handle_user_message_answer(data, message) ==
    LET user_text == Get(message, "text", JText(<<>>)).s
        is_voice == Get(message, "isVoice", FALSE)
        failure(calls, chunks, g, step) ==
            Request("ws", data, user_text, calls, chunks, g, step,
                    ErrorFrame(<<"Failed to process message">>))
    IN  UNION {
          IF ret.failed # "none"
          THEN {failure(ret.calls, <<>>, NoGate, ret.failed)}
          ELSE {IF g.raised
                THEN failure(ret.calls \o g.calls, ret.relevant_chunks, g,
                             "process_query_with_context")
                ELSE Request("ws", data, user_text, ret.calls \o g.calls,
                             ret.relevant_chunks, g, "none",
                             BotResponseFrame(g.answer, is_voice))
                  : g \in ai_response(user_text, ret.relevant_chunks)}
            : ret \in Retrieve}

\* the payloads a client sends
UserMessage(fields) == Json(JObject(fields))
WsPayloads == {
    NotJson,
    Json(JArray),
    Json(JObject([type |-> JName("ping")])),
    Json(JObject([text |-> JText(Question)])),
    Json(JObject([type |-> JName("status")])),
    Json(JObject([type |-> JNumber(7)])),
    UserMessage([type |-> JName("user_message")]),
    UserMessage([type |-> JName("user_message"), text |-> JText(Blank)]),
    UserMessage([type |-> JName("user_message"), text |-> JNumber(7)]),
    UserMessage([type |-> JName("user_message"), text |-> JText(Greeting)]),
    UserMessage([type |-> JName("user_message"), text |-> JText(Question),
                 isVoice |-> TRUE]) }

\* what each payload makes the receive loop do
ReceiveSteps == [data \in WsPayloads |-> websocket_endpoint_receive(data)]

\* every outcome of the pipeline, for each payload that reaches it
AnswerOutcomes ==
    [data \in {d \in WsPayloads : ReceiveSteps[d].pc = "typing"} |->
        handle_user_message_answer(data, json_loads(data).value)]

\* main.py:44-48: send_text is tried; a failure is logged and nothing else
\* happens: active_connections is not touched.  A socket that has failed
\* once is closed and fails again.
send_personal_message(failed, websocket, delivered) ==
    IF delivered /\ websocket \notin failed THEN failed ELSE failed \cup {websocket}

\* the types of a sequence of frames
Types(frames) == [i \in 1..Len(frames) |-> frames[i].type]

\* main.py:34-37, 138: accept, then append; a failed accept ends the handler
\* before the connection is added.  The connections are numbered in the
\* order in which they arrive.
WsConnect(c) ==
    /\ ws_pc[c] = "new"
    /\ \A d \in Conns : d < c => ws_pc[d] # "new"
    /\ \E accepted \in BOOLEAN :
         IF accepted
         THEN /\ active_connections' = Append(active_connections, c)
              /\ ws_pc' = [ws_pc EXCEPT ![c] = "receive"]
         ELSE /\ active_connections' = active_connections
              /\ ws_pc' = [ws_pc EXCEPT ![c] = "closed"]
    /\ UNCHANGED <<ws_msg, ws_out, send_failed, last>>

\* a frame handed to every active connection instead of the one given
send_text_to_all(out, websocket, types) ==
    [d \in Conns |-> IF In(d, active_connections) THEN out[d] \o types ELSE out[d]]

\* main.py:46: websocket.send_text(message), for each frame of the given
\* types: the frames go to the socket given and to no other
send_text(out, websocket, types) ==
    [out EXCEPT ![websocket] = @ \o types]

\* a request with the socket its inbound frame arrived on (the websocket
\* argument of the handler)
Arrived(websocket, request) ==
    [path |-> request.path, input |-> request.input, query |-> request.query,
     calls |-> request.calls, relevant_chunks |-> request.relevant_chunks,
     gate |-> request.gate, failure |-> request.failure,
     response |-> request.response, websocket |-> websocket]

\* the request of a handler as it is recorded: with its socket in the
\* behaviours that keep track of the sockets (SpecSession)
OnSocket(websocket, request) ==
    IF "websocket" \in DOMAIN last THEN Arrived(websocket, request) ELSE request

\* a loop that takes the next frame while the handler of the previous one
\* is still running
awaiting_receive_text_detached(c) == ws_pc[c] \in {"receive", "typing"}

\* main.py:140-144: the loop is at receive_text, which it reaches only when
\* handle_websocket_message has returned for the previous frame
awaiting_receive_text(c) == ws_pc[c] = "receive"

\* main.py:141-152: a payload arrives and is handled up to the first send
WsReceive(c) ==
    /\ awaiting_receive_text(c)
    /\ c \notin send_failed  \* receive_text on a closed socket raises: WsDisconnect
    /\ \E data \in WsPayloads, delivered \in BOOLEAN :
         LET step == ReceiveSteps[data]
         IN  /\ ws_out' = send_text([ws_out EXCEPT ![c] = <<>>], c, Types(step.out))
             /\ ws_pc' = [ws_pc EXCEPT ![c] = step.pc]
             /\ ws_msg' = [ws_msg EXCEPT ![c] = IF step.pc = "typing" THEN data ELSE NotJson]
             /\ last' = OnSocket(c, Request("ws", data, <<>>, <<>>, <<>>, NoGate, "none",
                                            IF step.out = <<>> THEN NoResponse
                                            ELSE step.out[Len(step.out)]))
             /\ send_failed' = IF step.out = <<>> THEN send_failed
                               ELSE send_personal_message(send_failed, c, delivered)
    /\ UNCHANGED active_connections

\* main.py:228-276: the pipeline runs and the response is sent
WsAnswer(c) ==
    /\ ws_pc[c] = "typing"
    /\ \E r \in AnswerOutcomes[ws_msg[c]], delivered \in BOOLEAN :
         /\ last' = OnSocket(c, r)
         /\ ws_out' = send_text(ws_out, c, <<r.response.type>>)
         /\ send_failed' = send_personal_message(send_failed, c, delivered)
    /\ ws_pc' = [ws_pc EXCEPT ![c] = "receive"]
    /\ ws_msg' = [ws_msg EXCEPT ![c] = NotJson]
    /\ UNCHANGED active_connections

\* main.py:153-157: receive_text raises (the client went away, or the socket
\* failed) and the handler ends
WsDisconnect(c) ==
    /\ ws_pc[c] = "receive"
    /\ active_connections' = disconnect(active_connections, c)
    /\ ws_pc' = [ws_pc EXCEPT ![c] = "closed"]
    /\ ws_out' = [ws_out EXCEPT ![c] = <<>>]
    /\ send_failed' = send_failed \ {c}
    /\ UNCHANGED <<ws_msg, last>>

----------------------------------------------------------------------------
(* ConnectionManager.broadcast (main.py:50-55) *)

\* the elements of a list
Elements(list) == {list[i] : i \in 1..Len(list)}

\* the n-th broadcast: where the coroutine stands, how many entries its list
\* iterator has passed, the connections handed to send_text in order, and
\* the connections that were active when the loop began
Broadcast(n, pc, index, attempts, at_start) ==
    [path |-> "broadcast", n |-> n, pc |-> pc, index |-> index, attempts |-> attempts,
     at_start |-> at_start]

\* main.py:51: the for statement asks the iterator of the live list for its
\* next entry; the iterator keeps a position, not a copy, and stops as soon
\* as its position is not below the current length of the list
broadcast_next(list, b) ==
    IF b.index < Len(list)
    THEN Broadcast(b.n, "sending", b.index + 1, Append(b.attempts, list[b.index + 1]),
                   b.at_start)
    ELSE Broadcast(b.n, "done", b.index, b.attempts, b.at_start)

\* main.py:52-55: send_text to a connection raised or not; the exception is
\* logged and nothing else is done
broadcast_send(failed, connection, delivered) ==
    IF delivered \/ ws_pc[connection] # "receive" THEN failed
    ELSE failed \cup {connection}

\* main.py:50-53: broadcast is called, when no other broadcast is running,
\* and runs up to its first send_text
BroadcastStart ==
    /\ last.path = "broadcast"
    /\ last.pc \in {"idle", "done"}
    /\ last.n < MaxBroadcasts
    /\ last' = broadcast_next(active_connections,
                              Broadcast(last.n + 1, "idle", 0, <<>>,
                                        Elements(active_connections)))
    /\ UNCHANGED <<active_connections, ws_pc, ws_msg, ws_out, send_failed>>

\* main.py:51-55: the pending send_text returns or raises, and the loop runs
\* up to its next send_text or to its end
BroadcastResume ==
    /\ last.path = "broadcast"
    /\ last.pc = "sending"
    /\ \E delivered \in BOOLEAN :
         send_failed' = broadcast_send(send_failed, last.attempts[Len(last.attempts)],
                                       delivered)
    /\ last' = broadcast_next(active_connections, last)
    /\ UNCHANGED <<active_connections, ws_pc, ws_msg, ws_out>>

----------------------------------------------------------------------------
(* The index query and its tenant filter (vector_store_service.py:118-140) *)

\* the tenants of the stored vectors: (organisation_id, project_id)
Tenants == {<<1, 1>>, <<1, 2>>, <<2, 1>>}

\* the vector stored at rank n of the similarity order; its chunk text names
\* its tenant and its rank
StoredVector(tenant, n) ==
    [key |-> n,
     metadata |-> [organisation_id |-> tenant[1], project_id |-> tenant[2],
                   chunk_text |-> <<tenant[1], tenant[2], n>>]]

\* the stores: up to n vectors, nearest to the query first
RECURSIVE StoresUpTo(_)
StoresUpTo(n) ==
    IF n = 0 THEN {<<>>}
    ELSE LET shorter == StoresUpTo(n - 1)
         IN  shorter \cup {Append(st, StoredVector(t, n))
                             : st \in {x \in shorter : Len(x) = n - 1}, t \in Tenants}

\* the vector satisfies every condition of the filter
Matches(vector, filter) ==
    \A i \in 1..Len(filter.conds) :
        vector.metadata[filter.conds[i].field] = filter.conds[i].value

\* the first k entries of a sequence
Take(seq, k) == SubSeq(seq, 1, IF Len(seq) < k THEN Len(seq) ELSE k)

\* a store that applies the filter of the query: the topK nearest vectors
\* among those that satisfy it
s3vectors_query_vectors(store, filter, topK) ==
    [vectors |-> Take(SelectSeq(store, LAMBDA v : Matches(v, filter)), topK)]

\* a query whose filter leaves out the project
query_vectors_organisation_only(store, organisation_id, project_id, limit) ==
    LET filter == [op |-> "$and",
                   conds |-> <<[field |-> "organisation_id", op |-> "$eq",
                                value |-> organisation_id]>>]
    IN  [filter |-> filter, response |-> s3vectors_query_vectors(store, filter, limit)]

\* vector_store_service.py:118-136: the filter sent and the reply of the store
query_vectors(store, organisation_id, project_id, limit) ==
    LET filter == [op |-> "$and",
                   conds |-> <<[field |-> "organisation_id", op |-> "$eq",
                                value |-> organisation_id],
                               [field |-> "project_id", op |-> "$eq",
                                value |-> project_id]>>]
    IN  [filter |-> filter, response |-> s3vectors_query_vectors(store, filter, limit)]

\* limit=5 in every call of query_vectors (chat.py:49, chat.py:142, main.py:237)
TopK == 5

\* an optional integer field with its default (Form(1), the ChatMessage
\* defaults, message.get(key, 1))
OrDefault(field, default) == IF field.none THEN default ELSE field.v

\* chat.py:84-85, 138-143
chat_query_vectors(store, organisation_id, project_id) ==
    query_vectors(store, OrDefault(organisation_id, 1), OrDefault(project_id, 1), TopK)

\* chat.py:21-22, 45-50
send_message_query_vectors(store, organisation_id, project_id) ==
    query_vectors(store, OrDefault(organisation_id, 1), OrDefault(project_id, 1), TopK)

\* main.py:207-208, 233-238
handle_user_message_query_vectors(store, organisation_id, project_id) ==
    query_vectors(store, OrDefault(organisation_id, 1), OrDefault(project_id, 1), TopK)

\* the ids a request carries
RequestIds == {None, Some(1), Some(2)}

\* a request about to query the index
TenantCall(via, organisation_id, project_id, store) ==
    [path |-> "tenant_call", via |-> via, organisation_id |-> organisation_id,
     project_id |-> project_id, store |-> store]

\* the index query of one request and the extraction of its chunks
CallQueryVectors ==
    /\ last.path = "tenant_call"
    /\ LET q == IF last.via = "chat"
                THEN chat_query_vectors(last.store, last.organisation_id, last.project_id)
                ELSE IF last.via = "message"
                THEN send_message_query_vectors(last.store, last.organisation_id,
                                                last.project_id)
                ELSE handle_user_message_query_vectors(last.store, last.organisation_id,
                                                       last.project_id)
       IN  last' = [path |-> "tenant", via |-> last.via,
                    organisation_id |-> last.organisation_id,
                    project_id |-> last.project_id, store |-> last.store,
                    filter |-> q.filter, search_results |-> q.response,
                    relevant_chunks |-> relevant_chunks_of(q.response)]
    /\ UNCHANGED <<active_connections, ws_pc, ws_msg, ws_out, send_failed>>

----------------------------------------------------------------------------
(* VectorStoreService.chunk_text (vector_store_service.py:36-55) *)

\* the index of the first whitespace character of s, Len(s) + 1 if none
FirstWhitespace(s) ==
    IF \E i \in 1..Len(s) : s[i] \in Whitespace
    THEN CHOOSE i \in 1..Len(s) :
            /\ s[i] \in Whitespace
            /\ \A j \in 1..(i - 1) : s[j] \notin Whitespace
    ELSE Len(s) + 1

\* text.split(): the maximal runs of characters that are not whitespace
RECURSIVE split(_)
split(text) ==
    LET s == LStrip(text)
    IN  IF s = <<>> THEN <<>>
        ELSE LET n == FirstWhitespace(s)
             IN  <<SubSeq(s, 1, n - 1)>> \o split(SubSeq(s, n, Len(s)))

\* sep.join(parts)
RECURSIVE join(_, _)
join(sep, parts) ==
    IF parts = <<>> THEN <<>>
    ELSE IF Len(parts) = 1 THEN parts[1]
    ELSE parts[1] \o sep \o join(sep, Tail(parts))

\* the variables of the loop of chunk_text
ChunkState(chunks, current_chunk, current_size) ==
    [chunks |-> chunks, current_chunk |-> current_chunk, current_size |-> current_size]

\* a loop body that starts the new chunk without the word that overflowed
chunk_step_dropping(st, word, chunk_size) ==
    IF st.current_size + Len(word) + 1 > chunk_size /\ st.current_chunk # <<>>
    THEN ChunkState(Append(st.chunks, join(<<" ">>, st.current_chunk)), <<>>, 0)
    ELSE ChunkState(st.chunks, Append(st.current_chunk, word),
                    st.current_size + Len(word) + 1)

\* vector_store_service.py:44-50: the body of the loop over the words
chunk_step(st, word, chunk_size) ==
    IF st.current_size + Len(word) + 1 > chunk_size /\ st.current_chunk # <<>>
    THEN ChunkState(Append(st.chunks, join(<<" ">>, st.current_chunk)), <<word>>, Len(word))
    ELSE ChunkState(st.chunks, Append(st.current_chunk, word),
                    st.current_size + Len(word) + 1)

\* vector_store_service.py:43-50: the loop over the words
RECURSIVE chunk_loop(_, _, _)
chunk_loop(words, chunk_size, st) ==
    IF words = <<>> THEN st
    ELSE chunk_loop(Tail(words), chunk_size, chunk_step(st, Head(words), chunk_size))

\* vector_store_service.py:36-55
chunk_text(text, chunk_size) ==
    LET st == chunk_loop(split(text), chunk_size, ChunkState(<<>>, <<>>, 0))
    IN  IF st.current_chunk # <<>>
        THEN Append(st.chunks, join(<<" ">>, st.current_chunk))
        ELSE st.chunks

\* the characters of the texts given to chunk_text
ChunkAlphabet == {"a", "b", " ", "\n"}

\* the chunk sizes given to chunk_text (an int: zero and negative included)
ChunkSizes == (0 - 1)..MaxChunkSize

\* a call about to be made
ChunkCall(text, chunk_size) ==
    [path |-> "chunk_call", text |-> text, chunk_size |-> chunk_size]

\* chunk_text applied to the arguments drawn by InitChunk
CallChunkText ==
    /\ last.path = "chunk_call"
    /\ last' = [path |-> "chunk", text |-> last.text, chunk_size |-> last.chunk_size,
                chunks |-> chunk_text(last.text, last.chunk_size)]
    /\ UNCHANGED <<active_connections, ws_pc, ws_msg, ws_out, send_failed>>

----------------------------------------------------------------------------
(* VectorStoreService.get_embeddings (vector_store_service.py:57-97) *)

\* settings.VECTOR_DIMENSION
VECTOR_DIMENSION == 512

\* the texts given to the embedding model
EmbedTexts == {<<"a">>, <<"b">>}

\* the lengths of the vectors the embedding model emits
UpstreamDimensions == {VECTOR_DIMENSION - 1, VECTOR_DIMENSION, VECTOR_DIMENSION + 1}

\* the number of a text, which marks the vector the model emits for it
TextCode(text) == IF text = <<>> THEN 0 ELSE IF Head(text) = "a" THEN 1 ELSE 2

\* the vector of m components the model emits for a text: no component is
\* zero, no two components are equal, and the vectors of two texts differ
\* in every component
Titan(text, m) == [i \in 1..m |-> TextCode(text) * 10000 + i]

\* what one bedrock.invoke_model call can bring: an exception (from the
\* call, from reading or from parsing the body), a body without the field
\* "embedding", or a body with an embedding of m components
InvokeOutcomes ==
    {[kind |-> "raised", m |-> 0], [kind |-> "no_embedding", m |-> 0]}
        \cup {[kind |-> "embedding", m |-> m] : m \in UpstreamDimensions}

\* response_body of an outcome that did not raise
response_body(text, outcome) ==
    IF outcome.kind = "embedding"
    THEN [fields |-> {"embedding"}, embedding |-> Titan(text, outcome.m)]
    ELSE [fields |-> {"message"}, embedding |-> <<>>]

\* an adjustment that keeps the LAST components of a longer vector
fit_dimension_tail(embedding) ==
    IF Len(embedding) > VECTOR_DIMENSION
    THEN SubSeq(embedding, Len(embedding) - VECTOR_DIMENSION + 1, Len(embedding))
    ELSE IF Len(embedding) < VECTOR_DIMENSION
    THEN embedding \o [i \in 1..(VECTOR_DIMENSION - Len(embedding)) |-> 0]
    ELSE embedding

\* vector_store_service.py:80-86: truncate or zero-pad to VECTOR_DIMENSION
fit_dimension(embedding) ==
    IF Len(embedding) > VECTOR_DIMENSION
    THEN SubSeq(embedding, 1, VECTOR_DIMENSION)
    ELSE IF Len(embedding) < VECTOR_DIMENSION
    THEN embedding \o [i \in 1..(VECTOR_DIMENSION - Len(embedding)) |-> 0]
    ELSE embedding

\* what a call of get_embeddings comes to: the exception it raised if any,
\* the list it returned if none, and the inputText of every upstream call
Embedded(raised, error, embeddings, calls) ==
    [raised |-> raised, error |-> error, embeddings |-> embeddings, calls |-> calls]

\* a handler that swallows the failure and returns what the loop has so far
get_embeddings_except_partial(error, embeddings, calls) ==
    Embedded(FALSE, "none", embeddings, calls)

\* vector_store_service.py:91-94: the failure is logged and raised again,
\* and the local list of embeddings is lost with the frame
get_embeddings_except(error, embeddings, calls) ==
    Embedded(TRUE, error, <<>>, calls)

\* vector_store_service.py:62-97: the loop over the texts from the i-th on,
\* outcomes[i] being what the i-th upstream call brings
RECURSIVE get_embeddings_loop(_, _, _, _)
get_embeddings_loop(texts, outcomes, embeddings, calls) ==
    IF texts = <<>> THEN Embedded(FALSE, "none", embeddings, calls)
    ELSE LET text == Head(texts)
             outcome == Head(outcomes)
             called == Append(calls, text)
         IN  IF outcome.kind = "raised"
             THEN get_embeddings_except("invoke_model", embeddings, called)
             ELSE IF "embedding" \notin response_body(text, outcome).fields
             THEN get_embeddings_except("No embedding in response", embeddings, called)
             ELSE get_embeddings_loop(
                    Tail(texts), Tail(outcomes),
                    Append(embeddings, fit_dimension(response_body(text, outcome).embedding)),
                    called)

\* vector_store_service.py:57-97
get_embeddings(texts, outcomes) == get_embeddings_loop(texts, outcomes, <<>>, <<>>)

\* the embedding call of the given texts
EmbedCall(texts, outcomes) ==
    [path |-> "embed_call", texts |-> texts, outcomes |-> outcomes]

\* get_embeddings applied to the batch drawn by InitEmbed
CallGetEmbeddings ==
    /\ last.path = "embed_call"
    /\ last' = [path |-> "embed", texts |-> last.texts, outcomes |-> last.outcomes,
                result |-> get_embeddings(last.texts, last.outcomes)]
    /\ UNCHANGED <<active_connections, ws_pc, ws_msg, ws_out, send_failed>>

----------------------------------------------------------------------------
(* VectorStoreService.create_faq_vectors and create_product_vectors
   (vector_store_service.py:142-258) *)

\* chunk_size: int = 1000
DefaultChunkSize == 1000

\* str(uuid.uuid4())
unique_key == "uuid4"

\* vector_store_service.py:146
faq_content(title, description, content) ==
    <<"T","i","t","l","e",":"," ">> \o title \o <<"\n","D","e","s","c","r","i","p","t","i","o","n",":"," ">>
        \o description \o <<"\n","C","o","n","t","e","n","t",":"," ">> \o content

\* vector_store_service.py:196-208: the rate and the count of a rating given
\* as an object with both attributes, as a dict, or as anything else
rating_rate(rating) ==
    IF rating.kind = "model" THEN rating.rate
    ELSE IF rating.kind = "dict" THEN (IF "rate" \in rating.keys THEN rating.rate ELSE 0)
    ELSE 0

rating_count(rating) ==
    IF rating.kind = "model" THEN rating.count
    ELSE IF rating.kind = "dict" THEN (IF "count" \in rating.keys THEN rating.count ELSE 0)
    ELSE 0

\* vector_store_service.py:211; the price is held as the text str() gives
\* for it, the rate and the count are single digits
product_content(title, price, description, category, image, rating) ==
    <<"T","i","t","l","e",":"," ">> \o title \o <<"\n","P","r","i","c","e",":"," ","$">> \o price
        \o <<"\n","D","e","s","c","r","i","p","t","i","o","n",":"," ">> \o description
        \o <<"\n","C","a","t","e","g","o","r","y",":"," ">> \o category
        \o <<"\n","R","a","t","i","n","g",":"," ">> \o <<ToString(rating_rate(rating))>> \o <<"/","5",".","0"," ","(">>
        \o <<ToString(rating_count(rating))>> \o <<" ","r","e","v","i","e","w","s",")","\n","I","m","a","g","e",":"," ">> \o image

\* vector_store_service.py:99-116: the put_vectors requests made and whether
\* the call raised
store_vectors(vectors, put_ok) ==
    [raised |-> ~put_ok, put_vectors |-> <<vectors>>]

\* zip(a, b): as long as the shorter of the two
zip(a, b) == [i \in 1..(IF Len(a) < Len(b) THEN Len(a) ELSE Len(b)) |-> <<a[i], b[i]>>]

\* what create_faq_vectors or create_product_vectors comes to: the exception
\* it raised if any, the upstream embedding calls, the put_vectors requests,
\* and the dict it returned if it did not raise
Created(raised, error, calls, put_vectors, chunks) ==
    [raised |-> raised, error |-> error, calls |-> calls, put_vectors |-> put_vectors,
     result |-> IF raised THEN None
                ELSE Some([unique_key |-> unique_key, chunk_count |-> Len(chunks),
                           chunks |-> chunks])]

\* vector_store_service.py:149-187 and 214-253: the part the two functions
\* share; metadata is the metadata of a vector but for its chunk_id and
\* its chunk_text
create_vectors(chunks, metadata, outcomes, put_ok) ==
    IF chunks = <<>>
    THEN Created(TRUE, "Failed to create text chunks", <<>>, <<>>, chunks)
    ELSE LET embedded == get_embeddings(chunks, outcomes)
         IN  IF embedded.raised
             THEN Created(TRUE, embedded.error, embedded.calls, <<>>, chunks)
             ELSE LET pairs == zip(chunks, embedded.embeddings)
                      vectors_to_put ==
                        [i \in 1..Len(pairs) |->
                            [key |-> <<unique_key, i - 1>>, data |-> pairs[i][2],
                             metadata |-> [metadata EXCEPT !.chunk_id = i - 1,
                                                            !.chunk_text = pairs[i][1]]]]
                      stored == store_vectors(vectors_to_put, put_ok)
                  IN  Created(stored.raised,
                              IF stored.raised THEN "put_vectors" ELSE "none",
                              embedded.calls, stored.put_vectors, chunks)

\* vector_store_service.py:142-191
create_faq_vectors(title, description, content, organisation_id, project_id, outcomes, put_ok) ==
    create_vectors(
        chunk_text(faq_content(title, description, content), DefaultChunkSize),
        [organisation_id |-> organisation_id, project_id |-> project_id,
         chunk_id |-> 0, unique_key |-> unique_key, chunk_text |-> <<>>,
         title |-> title, description |-> description, content |-> content,
         content_type |-> "faq"],
        outcomes, put_ok)

\* vector_store_service.py:193-258
create_product_vectors(title, price, description, category, image, rating, organisation_id, project_id, outcomes, put_ok) ==
    create_vectors(
        chunk_text(product_content(title, price, description, category, image, rating),
                   DefaultChunkSize),
        [organisation_id |-> organisation_id, project_id |-> project_id,
         chunk_id |-> 0, unique_key |-> unique_key, chunk_text |-> <<>>,
         title |-> title, price |-> price, category |-> category,
         rating |-> <<ToString(rating_rate(rating)), "/",
                      ToString(rating_count(rating))>>,
         content_type |-> "product"],
        outcomes, put_ok)

\* all sequences of n elements of S
RECURSIVE SeqsOfLen(_, _)
SeqsOfLen(S, n) ==
    IF n = 0 THEN {<<>>}
    ELSE {Append(q, x) : q \in SeqsOfLen(S, n - 1), x \in S}

\* a word too long for two of them to share a chunk of DefaultChunkSize
LongWord(c) == Rep(c, DefaultChunkSize \div 2 + 100)

\* k long words, one space between neighbours
RECURSIVE LongText(_)
LongText(k) ==
    IF k = 0 THEN <<>>
    ELSE IF k = 1 THEN LongWord("a")
    ELSE LongText(k - 1) \o <<" ">> \o LongWord(IF k % 2 = 0 THEN "b" ELSE "a")

\* the content of an FAQ entry and the description of a product: short, or
\* long enough for up to MaxBatchLen chunks
LongTexts == {<<"a">>} \cup {LongText(k) : k \in 0..MaxBatchLen}

\* the ratings given with a product: an object with rate and count, a dict
\* with both keys, an empty dict, and a value that is neither
Ratings ==
    {[kind |-> "model", keys |-> {"rate", "count"}, rate |-> 4, count |-> 2],
     [kind |-> "dict", keys |-> {"rate", "count"}, rate |-> 3, count |-> 1],
     [kind |-> "dict", keys |-> {}, rate |-> 0, count |-> 0],
     [kind |-> "other", keys |-> {}, rate |-> 0, count |-> 0]}

\* a call of create_faq_vectors about to be made, with what the upstream
\* calls will bring
FaqCall(content, outcomes, put_ok) ==
    [path |-> "faq_call", title |-> <<"t">>, description |-> <<"d">>,
     content |-> content, organisation_id |-> 1, project_id |-> 2,
     outcomes |-> outcomes, put_ok |-> put_ok]

\* a call of create_product_vectors about to be made
ProductCall(description, rating, outcomes, put_ok) ==
    [path |-> "product_call", title |-> <<"t">>, price |-> <<"9", ".", "5">>,
     description |-> description, category |-> <<"c">>, image |-> <<"i">>,
     rating |-> rating, organisation_id |-> 1, project_id |-> 2,
     outcomes |-> outcomes, put_ok |-> put_ok]

\* the calls of get_embeddings: batches of up to MaxBatchLen texts, one
\* upstream outcome for each
EmbedCalls ==
    UNION {{EmbedCall(texts, outcomes)
                : texts \in SeqsOfLen(EmbedTexts, n),
                  outcomes \in SeqsOfLen(InvokeOutcomes, n)} : n \in 0..MaxBatchLen}

\* the calls of create_faq_vectors: one upstream outcome for each chunk
FaqCalls ==
    UNION {{FaqCall(content, outcomes, put_ok)
                : outcomes \in SeqsOfLen(InvokeOutcomes,
                        Len(chunk_text(faq_content(<<"t">>, <<"d">>, content),
                                       DefaultChunkSize))),
                  put_ok \in BOOLEAN} : content \in LongTexts}

\* the calls of create_product_vectors: one upstream outcome for each chunk
ProductCalls ==
    UNION {{ProductCall(description, rating, outcomes, put_ok)
                : outcomes \in SeqsOfLen(InvokeOutcomes,
                        Len(chunk_text(product_content(<<"t">>, <<"9", ".", "5">>,
                                            description, <<"c">>, <<"i">>, rating),
                                       DefaultChunkSize))),
                  put_ok \in BOOLEAN}
            : description \in {<<"a">>, LongText(2)}, rating \in Ratings}

\* create_faq_vectors applied to the call drawn by InitEmbed
CallCreateFaqVectors ==
    /\ last.path = "faq_call"
    /\ last' = [path |-> "faq", content |-> last.content, outcomes |-> last.outcomes,
                put_ok |-> last.put_ok,
                chunks |-> chunk_text(faq_content(last.title, last.description,
                                                  last.content), DefaultChunkSize),
                created |-> create_faq_vectors(last.title, last.description,
                                last.content, last.organisation_id, last.project_id,
                                last.outcomes, last.put_ok)]
    /\ UNCHANGED <<active_connections, ws_pc, ws_msg, ws_out, send_failed>>

\* create_product_vectors applied to the call drawn by InitEmbed
CallCreateProductVectors ==
    /\ last.path = "product_call"
    /\ last' = [path |-> "product", description |-> last.description,
                rating |-> last.rating, outcomes |-> last.outcomes,
                put_ok |-> last.put_ok,
                chunks |-> chunk_text(product_content(last.title, last.price,
                                last.description, last.category, last.image,
                                last.rating), DefaultChunkSize),
                created |-> create_product_vectors(last.title, last.price,
                                last.description, last.category, last.image,
                                last.rating, last.organisation_id, last.project_id,
                                last.outcomes, last.put_ok)]
    /\ UNCHANGED <<active_connections, ws_pc, ws_msg, ws_out, send_failed>>

----------------------------------------------------------------------------
(* Specifications *)

Init ==
    /\ active_connections = <<>>
    /\ ws_pc = [c \in Conns |-> "new"]
    /\ ws_msg = [c \in Conns |-> NotJson]
    /\ ws_out = [c \in Conns |-> <<>>]
    /\ send_failed = {}
    /\ last = NoRequest

\* no realtime connection has been opened
ChannelUnused == \A c \in Conns : ws_pc[c] = "new"

\* no HTTP request has been served
HttpUnused == last.path \notin {"chat", "message", "unhandled"}

\* The HTTP handlers share nothing with the realtime channel: chat.py:14-17
\* builds its own service objects, the services keep no state, and the
\* handlers never touch the ConnectionManager.  The outcome of a request
\* therefore does not depend on what the channel is doing, and a behaviour
\* follows either the HTTP endpoints or the realtime channel.
Next ==
    \/ ChannelUnused /\ HttpChat
    \/ ChannelUnused /\ HttpMessage
    \/ ChannelUnused /\ HttpUnhandled
    \/ HttpUnused /\ \E c \in Conns : WsConnect(c)
    \/ \E c \in Conns : WsReceive(c)
    \/ \E c \in Conns : WsAnswer(c)
    \/ \E c \in Conns : WsDisconnect(c)

\* the endpoints and the realtime channel
Spec == Init /\ [][Next]_vars

InitGate ==
    /\ active_connections = <<>>
    /\ ws_pc = [c \in Conns |-> "new"]
    /\ ws_msg = [c \in Conns |-> NotJson]
    /\ ws_out = [c \in Conns |-> <<>>]
    /\ send_failed = {}
    /\ last \in {GateCall(query, chunks) : query \in GateQueries, chunks \in GateChunkLists}

NextGate == CallGate

\* process_query_with_context alone, over the queries of GateQueries
SpecGate == InitGate /\ [][NextGate]_vars

InitTenant ==
    /\ active_connections = <<>>
    /\ ws_pc = [c \in Conns |-> "new"]
    /\ ws_msg = [c \in Conns |-> NotJson]
    /\ ws_out = [c \in Conns |-> <<>>]
    /\ send_failed = {}
    /\ last \in {TenantCall(via, organisation_id, project_id, store)
                    : via \in {"chat", "message", "ws"},
                      organisation_id \in RequestIds, project_id \in RequestIds,
                      store \in StoresUpTo(MaxStoreLen)}

NextTenant == CallQueryVectors

\* the index query of one request, over the stores of StoresUpTo(MaxStoreLen)
SpecTenant == InitTenant /\ [][NextTenant]_vars

InitChunk ==
    /\ active_connections = <<>>
    /\ ws_pc = [c \in Conns |-> "new"]
    /\ ws_msg = [c \in Conns |-> NotJson]
    /\ ws_out = [c \in Conns |-> <<>>]
    /\ send_failed = {}
    /\ last \in {ChunkCall(text, chunk_size)
                    : text \in TextsUpTo(ChunkAlphabet, MaxTextLen),
                      chunk_size \in ChunkSizes}

NextChunk == CallChunkText

\* chunk_text alone, over the texts of up to MaxTextLen characters
SpecChunk == InitChunk /\ [][NextChunk]_vars

InitEmbed ==
    /\ active_connections = <<>>
    /\ ws_pc = [c \in Conns |-> "new"]
    /\ ws_msg = [c \in Conns |-> NotJson]
    /\ ws_out = [c \in Conns |-> <<>>]
    /\ send_failed = {}
    /\ last \in EmbedCalls \cup FaqCalls \cup ProductCalls

NextEmbed ==
    \/ CallGetEmbeddings
    \/ CallCreateFaqVectors
    \/ CallCreateProductVectors

\* get_embeddings and the two functions that store what it returns
SpecEmbed == InitEmbed /\ [][NextEmbed]_vars

InitBroadcast ==
    /\ active_connections = <<>>
    /\ ws_pc = [c \in Conns |-> "new"]
    /\ ws_msg = [c \in Conns |-> NotJson]
    /\ ws_out = [c \in Conns |-> <<>>]
    /\ send_failed = {}
    /\ last = Broadcast(0, "idle", 0, <<>>, {})

\* Connections come and go while a broadcast runs: the handlers run on the
\* same event loop as the broadcast and get their turn whenever it is
\* suspended in send_text, and before it starts and after it ends.
NextBroadcast ==
    \/ \E c \in Conns : WsConnect(c)
    \/ \E c \in Conns : WsDisconnect(c)
    \/ BroadcastStart
    \/ BroadcastResume

\* up to MaxBroadcasts broadcasts, one after the other, among connects and
\* disconnects
SpecBroadcast == InitBroadcast /\ [][NextBroadcast]_vars

InitSession ==
    /\ active_connections = <<>>
    /\ ws_pc = [c \in Conns |-> "new"]
    /\ ws_msg = [c \in Conns |-> NotJson]
    /\ ws_out = [c \in Conns |-> <<>>]
    /\ send_failed = {}
    /\ last = Arrived(0, NoRequest)

NextSession ==
    \/ \E c \in Conns : WsConnect(c)
    \/ \E c \in Conns : WsReceive(c)
    \/ \E c \in Conns : WsAnswer(c)
    \/ \E c \in Conns : WsDisconnect(c)

\* the realtime channel alone, each request recorded with its socket
SpecSession == InitSession /\ [][NextSession]_vars

----------------------------------------------------------------------------
(* Properties *)

\* the greeting phrases
GreetingPhrases == {pure_greetings[i] : i \in 1..Len(pure_greetings)}

\* the query, trimmed and then lowercased, is a greeting phrase or a greeting
\* phrase followed by one "!"
QueryIsGreeting(query) ==
    LET n == Lower(Strip(query))
    IN  \/ n \in GreetingPhrases
        \/ /\ n # <<>>
           /\ n[Len(n)] = "!"
           /\ SubSeq(n, 1, Len(n) - 1) \in GreetingPhrases

\* no chunk was retrieved, or every retrieved chunk is at most 20 characters
\* long once trimmed
ContextSetEmpty(chunks) == \A i \in 1..Len(chunks) : Len(Strip(chunks[i])) <= 20

\* the calls to the LLM
LlmCalls == {"complete", "detect_language", "translate"}

Made(call, calls) == \E i \in 1..Len(calls) : calls[i] = call

\* the request was answered: an answer went back to the client
Answered == last.response.type \in {"http_ok", "bot_response"}

\* C1: a request whose Context Set is empty makes no LLM call (completion,
\* language detection, translation), on the HTTP endpoints and on the realtime
\* channel.
C1_NoLlmCallOnEmptyContext ==
    (last.path \in {"chat", "message", "ws"} /\ ContextSetEmpty(last.relevant_chunks))
        => \A i \in 1..Len(last.calls) : last.calls[i] \notin LlmCalls

\* a realtime message that is no greeting, whose only retrieved chunk is too
\* short, was answered
C1_Witness ==
    /\ last.path = "ws"
    /\ last.relevant_chunks = <<PaddedChunk>>
    /\ ~QueryIsGreeting(last.query)
    /\ last.response.type = "bot_response"

\* C2: a query that is no greeting and whose Context Set is empty is answered
\* with exactly "No context found for your query.", in the response of POST
\* /api/v1/chat and in the bot_response frame.
C2_NoContextLiteral ==
    (/\ last.path \in {"chat", "ws"}
     /\ Answered
     /\ ~QueryIsGreeting(last.query)
     /\ ContextSetEmpty(last.relevant_chunks))
        => last.response.text = <<"No context found for your query.">>

\* C3: the gate ends in GREETING exactly when the query, trimmed and
\* lowercased, is one of the nine greeting phrases or one of them followed by
\* one "!"; every other query ends in NO_CONTEXT or GENERATE.
C3_GreetingIffExactPhrase ==
    /\ Cardinality(GreetingPhrases) = 9
    /\ last.path = "gate" =>
        /\ last.gate.gate \in {"GREETING", "NO_CONTEXT", "GENERATE"}
        /\ last.gate.gate = "GREETING" <=> QueryIsGreeting(last.query)

\* a padded, capitalised greeting with "!" reached GREETING
C3_Witness ==
    /\ last.path = "gate"
    /\ last.query = <<" ", "H", "i", "!">>
    /\ last.gate.gate = "GREETING"

\* the salutation of an hour
Salutation(h) ==
    IF h < 12 THEN "Good morning" ELSE IF h < 17 THEN "Good afternoon" ELSE "Good evening"

\* C4: a pure greeting is answered with one of the five templates carrying the
\* salutation of the current hour, whatever was retrieved, on the HTTP chat
\* path and on the realtime path.
C4_GreetingAnswer ==
    (last.path \in {"chat", "ws"} /\ Answered /\ QueryIsGreeting(last.query))
        => \E h \in (IF last.gate.hour >= 0 THEN {last.gate.hour} ELSE 0..23), k \in 1..5 :
              last.response.text = greetings(Salutation(h))[k]

EnglishNames == {<<"e","n","g","l","i","s","h">>, <<"e","n">>}

\* C5: in GENERATE, a detected language that is neither "english" nor "en"
\* (in any letter case) with a successful translation makes the translated
\* text the final answer; a detected language that is "english" or "en" makes
\* no translation call and leaves the completion as the final answer.
C5_TranslationPolicy ==
    (/\ last.path = "gate"
     /\ last.gate.gate = "GENERATE"
     /\ Made("detect_language", last.gate.calls))
        => IF Lower(last.gate.language) \in EnglishNames
           THEN /\ ~Made("translate", last.gate.calls)
                /\ ~last.gate.raised
                /\ last.gate.answer = last.gate.completion
           ELSE "translate" \notin last.gate.failed
                    => /\ Made("translate", last.gate.calls)
                       /\ ~last.gate.raised
                       /\ last.gate.answer = last.gate.translation

\* a French query whose completion was translated into a different text
C5_Witness ==
    /\ last.path = "gate"
    /\ last.gate.language = <<"F","r","e","n","c","h">>
    /\ last.gate.completion = <<"A1">>
    /\ last.gate.translation = <<"T1">>
    /\ last.gate.answer = <<"T1">>

\* C6: when the translation call fails, process_query_with_context does not
\* raise and returns the untranslated completion.
C6_TranslationFailureFallsBack ==
    (last.path = "gate" /\ "translate" \in last.gate.failed)
        => /\ ~last.gate.raised
           /\ last.failure = "none"
           /\ last.gate.answer = last.gate.completion

\* the translation of a completion failed
C6_Witness ==
    /\ last.path = "gate"
    /\ "translate" \in last.gate.failed
    /\ last.gate.completion = <<"A1">>

\* C7: when the language-detection call fails, the detected language is
\* "Unknown" and the request still ends with an answer (the completion or its
\* translation), never with an error.
C7_DetectionFailureStillAnswers ==
    "detect_language" \in last.gate.failed
        => /\ last.gate.language = Unknown
           /\ ~last.gate.raised
           /\ last.path \in {"chat", "message", "ws"}
                => /\ Answered
                   /\ last.response.text \in {last.gate.completion, last.gate.translation}

\* the payload is a JSON object
IsObject(data) == data.json /\ data.value.t = "object"

\* the value of the "type" key of a JSON object (null if there is none)
TypeOf(data) == Get(data.value, "type", JNull)

\* the payload is a user_message frame whose text is a string that is not blank
HasText(data) ==
    /\ IsObject(data)
    /\ TypeOf(data) = JName("user_message")
    /\ "text" \in DOMAIN data.value.fields
    /\ data.value.fields["text"].t = "text"
    /\ Strip(data.value.fields["text"].s) # <<>>

\* a step in which a receive loop takes one inbound payload (last'.input): no
\* handler starts, ends or finishes a pipeline
ReceiveStep ==
    /\ last'.path = "ws"
    /\ \A d \in Conns :
         \/ ws_pc'[d] = ws_pc[d]
         \/ ws_pc[d] = "receive" /\ ws_pc'[d] = "typing"

\* in this step exactly the frames of types out were handed to some connection
\* that was and stays in its receive loop, and no other connection was sent
\* anything
RepliedWith(out) ==
    /\ \E c \in Conns :
         /\ ws_pc[c] = "receive"
         /\ ws_pc'[c] = "receive"
         /\ ws_out'[c] = out
         /\ In(c, active_connections')
    /\ \A c \in Conns : ws_out'[c] # ws_out[c] => ws_out'[c] = out /\ ws_pc'[c] = "receive"
    /\ active_connections' = active_connections

\* C8: a user_message frame with non-blank text is answered first with a
\* typing frame and then with exactly one further frame: bot_response if the
\* pipeline succeeded, error if a step of it failed.
C8_TypingThenOneResponse ==
    [][/\ (ReceiveStep /\ HasText(last'.input))
            => \E c \in Conns : ws_pc[c] = "receive" /\ ws_pc'[c] = "typing"
       /\ \A c \in Conns :
            /\ (ws_pc[c] = "receive" /\ ws_pc'[c] = "typing")
                 => /\ HasText(last'.input)
                    /\ ws_out'[c] = <<"typing">>
                    /\ last'.response = TypingFrame
            /\ ws_pc[c] = "typing"
                 => \/ ws_pc'[c] = "typing" /\ ws_out'[c] = ws_out[c]
                    \/ /\ ws_pc'[c] = "receive"
                       /\ HasText(last'.input)
                       /\ last'.response.type =
                            (IF last'.failure = "none" THEN "bot_response" ELSE "error")
                       /\ ws_out'[c] = <<"typing", last'.response.type>>
            /\ (ws_pc[c] = "receive" /\ ws_out'[c] # ws_out[c])
                 => ReceiveStep \/ ws_pc'[c] = "closed"
      ]_vars

\* a message was answered with typing and bot_response while the index query
\* of another had failed before
C8_Witness ==
    \E c \in Conns :
        /\ ws_pc[c] = "receive"
        /\ ws_out[c] = <<"typing", "bot_response">>
        /\ last.path = "ws"
        /\ last.response.type = "bot_response"
        /\ last.gate.gate = "GENERATE"

\* C9: a JSON frame of type "ping" is answered with exactly one pong frame; a
\* JSON frame whose type is neither "user_message" nor "ping", or that has no
\* type, is answered with exactly one error frame whose message names the
\* type; neither makes an embedding, index or LLM call.
C9_PingPongUnknownError ==
    [][(ReceiveStep /\ IsObject(last'.input))
         => /\ TypeOf(last'.input) = JName("ping")
                => /\ last'.response = PongFrame
                   /\ RepliedWith(<<"pong">>)
                   /\ last'.calls = <<>>
            /\ TypeOf(last'.input) \notin {JName("ping"), JName("user_message")}
                => /\ last'.response =
                        ErrorFrame(<<"Unknown message type: ", Format(TypeOf(last'.input))>>)
                   /\ RepliedWith(<<"error">>)
                   /\ last'.calls = <<>>
      ]_vars

\* a frame without a type was answered with the error frame naming None
C9_Witness ==
    /\ last.path = "ws"
    /\ last.input = Json(JObject([text |-> JText(Question)]))
    /\ last.response = ErrorFrame(<<"Unknown message type: ", "None">>)
    /\ \E c \in Conns : ws_pc[c] = "receive" /\ ws_out[c] = <<"error">>

\* C10: a payload that is not valid JSON is answered with exactly one error
\* frame and makes no embedding, index or LLM call; the connection stays in
\* the active set and its receive loop goes on.
C10_InvalidJson ==
    [][(ReceiveStep /\ ~last'.input.json)
         => /\ last'.response = ErrorFrame(<<"Invalid JSON format">>)
            /\ RepliedWith(<<"error">>)
            /\ last'.calls = <<>>
      ]_vars

\* an invalid payload was answered on a connection that is still active
C10_Witness ==
    /\ last.path = "ws"
    /\ ~last.input.json
    /\ last.response.type = "error"
    /\ \E c \in Conns :
         ws_pc[c] = "receive" /\ ws_out[c] = <<"error">> /\ In(c, active_connections)

\* the realtime channel answered a question for which the index returned
\* nothing with a text other than the no-context literal
C2_Failure ==
    /\ last.path = "ws"
    /\ last.response.type = "bot_response"
    /\ last.query = Question
    /\ last.relevant_chunks = <<>>
    /\ last.response.text # <<"No context found for your query.">>

\* the realtime channel answered a greeting for which the index returned
\* nothing with a text that is no greeting template
C4_Failure ==
    /\ last.path = "ws"
    /\ last.response.type = "bot_response"
    /\ last.query = Greeting
    /\ last.relevant_chunks = <<>>
    /\ last.gate.gate # "GREETING"

\* POST /message ended with 500 although the Answer Gate had produced the
\* completion after a failed language detection
C7_Failure ==
    /\ last.path = "message"
    /\ "detect_language" \in last.gate.failed
    /\ ~last.gate.raised
    /\ last.gate.answer \in CompletionReplies \cup TranslationReplies
    /\ last.response = HttpError(500, <<"Failed to process message">>)

\* C11: a connection to which a send has failed is removed from the active
\* connection set, and every other connection whose handler runs stays in it.
C11_SendFailureRemoves ==
    \A c \in send_failed :
        /\ ~In(c, active_connections)
        /\ \A d \in Conns \ {c} :
             (ws_pc[d] \in {"receive", "typing"} /\ d \notin send_failed)
                 => In(d, active_connections)

\* the send of a bot_response failed and the connection is still in the
\* active set, its handler back in the receive loop
C11_Failure ==
    \E c \in send_failed :
        /\ ws_pc[c] = "receive"
        /\ ws_out[c] = <<"typing", "bot_response">>
        /\ In(c, active_connections)

\* the handler of connection c runs
Serving(c) == ws_pc[c] \in {"receive", "typing"}

\* C12: a processing error on the realtime channel never ends the session:
\* the connection stays in the active set and its receive loop goes on; a
\* handler ends only where receive_text raises (a disconnect or a failure of
\* the socket), without having processed a frame.
C12_ErrorsKeepSession ==
    [][/\ \A c \in Conns :
            Serving(c) =>
                \/ ws_pc'[c] \in {"receive", "typing"} /\ In(c, active_connections')
                \/ ws_pc[c] = "receive" /\ ws_pc'[c] = "closed" /\ last' = last
       /\ (last' # last /\ last'.path = "ws" /\ last'.response.type = "error")
            => /\ \E c \in Conns :
                    /\ Serving(c)
                    /\ ws_pc'[c] = "receive"
                    /\ In(c, active_connections')
                    /\ ws_out'[c] # <<>>
                    /\ ws_out'[c][Len(ws_out'[c])] = "error"
               /\ active_connections' = active_connections
      ]_vars

\* the completion call failed for a realtime message; the error frame went
\* out and the connection is in the active set, back in its receive loop
C12_Witness ==
    /\ last.path = "ws"
    /\ last.failure = "process_query_with_context"
    /\ "complete" \in last.gate.failed
    /\ last.response = ErrorFrame(<<"Failed to process message">>)
    /\ \E c \in Conns :
         /\ ws_pc[c] = "receive"
         /\ ws_out[c] = <<"typing", "error">>
         /\ In(c, active_connections)

\* C13: in every reachable state the active connection set holds each
\* connection at most once and holds exactly the connections that were
\* accepted and whose handler has not ended; disconnecting a connection that
\* is not in the set changes nothing.
C13_ActiveSetExact ==
    /\ \A i, j \in 1..Len(active_connections) :
          i # j => active_connections[i] # active_connections[j]
    /\ \A c \in Conns : In(c, active_connections) <=> Serving(c)
    /\ \A c \in Conns :
          ~In(c, active_connections)
              => disconnect(active_connections, c) = active_connections

\* the connection accepted first has gone, one accepted after it is being
\* served and is the only member of the set
C13_Witness ==
    \E c, d \in Conns :
        /\ c < d
        /\ ws_pc[c] = "closed"
        /\ ws_pc[d] = "typing"
        /\ active_connections = <<d>>
        /\ disconnect(active_connections, c) = <<d>>

\* the request carries a text field that is not empty / an audio upload
CarriesText == ~last.input.text.none /\ last.input.text.v # <<>>
CarriesAudio == ~last.input.audio.none

\* the text consists of whitespace only (or of nothing)
IsBlank(s) == \A i \in 1..Len(s) : s[i] \in {" ", "\t", "\n"}

\* the embedding call, the index query and the calls to the LLM
PipelineCalls == {"get_embeddings", "query_vectors"} \cup LlmCalls

\* the request was answered 400 and made no embedding, index or LLM call
Rejected400 ==
    /\ last.response.type = "http_error"
    /\ last.response.status = 400
    /\ \A i \in 1..Len(last.calls) : last.calls[i] \notin PipelineCalls

\* C14: POST /api/v1/chat answers 400 and makes no embedding, index or LLM
\* call when the request carries both of text and audio or neither, when its
\* text is blank, and when the transcript of its audio is empty; the 400 is
\* what the client gets, not a 500.
C14_ChatValidation400 ==
    last.path = "chat" =>
        /\ (CarriesText <=> CarriesAudio) => Rejected400
        /\ (CarriesText /\ ~CarriesAudio /\ IsBlank(last.input.text.v)) => Rejected400
        /\ (/\ CarriesAudio
            /\ ~CarriesText
            /\ Made("transcribe_audio", last.calls)
            /\ last.failure # "transcribe_audio"
            /\ IsBlank(last.query)) => Rejected400

\* an audio request whose transcript came back empty was answered 400
C14_Witness ==
    /\ last.path = "chat"
    /\ CarriesAudio
    /\ last.calls = <<"transcribe_audio">>
    /\ last.response = HttpError(400, <<"No text content found">>)

\* the embedding call, the index query and every LLM call of the request
\* succeeded
UpstreamSucceeded ==
    /\ last.failure \notin {"get_embeddings", "query_vectors"}
    /\ last.gate.failed = {}
    /\ Made("query_vectors", last.calls)

\* C15: a POST /api/v1/message whose upstream calls all succeed returns a
\* success response whose answer is the answer of the Answer Gate, with
\* is_voice echoed from the request.
C15_MessageSuccess ==
    (last.path = "message" /\ UpstreamSucceeded)
        => /\ last.response.type = "http_ok"
           /\ last.response.status = 200
           /\ last.response.text = last.gate.answer
           /\ last.response.is_voice = last.input.is_voice

\* the gate answered a message with a completion, every call succeeded, and
\* the request ended with 500
C15_Failure ==
    /\ last.path = "message"
    /\ UpstreamSucceeded
    /\ last.gate.gate = "GENERATE"
    /\ last.gate.answer = last.gate.completion
    /\ last.failure = "ChatResponse"
    /\ last.response = HttpError(500, <<"Failed to process message">>)

\* the embedding call, the index query or the completion call that failed
\* for the request ("none" if none of them did)
FailedCall ==
    IF last.failure \in {"get_embeddings", "query_vectors"} THEN last.failure
    ELSE IF "complete" \in last.gate.failed THEN "complete"
    ELSE "none"

\* the fixed detail of the 500 of each endpoint
GenericDetail ==
    IF last.path = "chat" THEN <<"Failed to process chat request">>
    ELSE <<"Failed to process message">>

\* C16: on the HTTP chat endpoints a failure of the embedding call, the index
\* query or the completion call ends the request with 500 and the fixed
\* generic detail of the endpoint; the failed call was made once and is the
\* last call of the request.
C16_UpstreamFailure500 ==
    (last.path \in {"chat", "message"} /\ FailedCall # "none")
        => /\ last.response.type = "http_error"
           /\ last.response.status = 500
           /\ last.response.detail = GenericDetail
           /\ last.response.text = <<>>
           /\ last.calls[Len(last.calls)] = FailedCall
           /\ Cardinality({i \in 1..Len(last.calls) : last.calls[i] = FailedCall}) = 1

\* the completion call of a voice request failed after the transcription,
\* the embedding and the index query
C16_Witness ==
    /\ last.path = "chat"
    /\ FailedCall = "complete"
    /\ last.calls = <<"transcribe_audio", "get_embeddings", "query_vectors", "complete">>
    /\ last.response = HttpError(500, <<"Failed to process chat request">>)

\* C17: on POST /api/v1/chat a response carries an audio_url only if the
\* input was audio and the synthesis succeeded; a synthesis failure still
\* gives a success response with the answer and the transcript and without
\* audio_url; a text input gives transcript = null, audio_url = null and
\* is_voice = false.
C17_AudioUrl ==
    last.path = "chat" =>
        /\ ~last.response.audio_url.none
             => /\ CarriesAudio
                /\ Made("synthesize_speech", last.calls)
                /\ last.failure = "none"
        /\ last.failure = "synthesize_speech"
             => /\ last.response.type = "http_ok"
                /\ last.response.text = last.gate.answer
                /\ last.response.transcript = Some(last.query)
                /\ last.response.audio_url.none
        /\ (~CarriesAudio /\ last.response.type = "http_ok")
             => /\ last.response.transcript.none
                /\ last.response.audio_url.none
                /\ ~last.response.is_voice

\* the synthesis failed for a voice request whose answer was generated
C17_Witness ==
    /\ last.path = "chat"
    /\ CarriesAudio
    /\ last.failure = "synthesize_speech"
    /\ last.gate.gate = "GENERATE"
    /\ last.response.type = "http_ok"
    /\ last.response.is_voice
    /\ last.response.audio_url.none

\* C18: the index query of a request carries a filter that is the AND of
\* equality on the request's organisation_id and equality on the request's
\* project_id, on the HTTP and the realtime paths, and with a store applying
\* the filter no chunk of another organisation or project is among the
\* chunks retrieved, wherever it is in the similarity order.
C18_TenantFilter ==
    last.path = "tenant" =>
        LET org == IF last.organisation_id.none THEN 1 ELSE last.organisation_id.v
            proj == IF last.project_id.none THEN 1 ELSE last.project_id.v
        IN  /\ last.filter.op = "$and"
            /\ {last.filter.conds[i] : i \in 1..Len(last.filter.conds)}
                 = {[field |-> "organisation_id", op |-> "$eq", value |-> org],
                    [field |-> "project_id", op |-> "$eq", value |-> proj]}
            /\ \A i \in 1..Len(last.relevant_chunks) :
                 /\ last.relevant_chunks[i][1] = org
                 /\ last.relevant_chunks[i][2] = proj

\* a realtime request of organisation 1, project 2: the nearest vector
\* belongs to the same organisation and another project, and the chunks
\* retrieved are those of the request's tenant further down the order
C18_Witness ==
    /\ last.path = "tenant"
    /\ last.via = "ws"
    /\ last.organisation_id = Some(1)
    /\ last.project_id = Some(2)
    /\ Len(last.store) >= 3
    /\ last.store[1].metadata.organisation_id = 1
    /\ last.store[1].metadata.project_id = 1
    /\ Len(last.relevant_chunks) = 2

\* C19: the top-level exception handler answers an unhandled failure with
\* status 500 and a body no field of which holds the text of the exception.
C19_GenericBody ==
    last.path = "unhandled" =>
        /\ last.response.status = 500
        /\ \A k \in DOMAIN last.response.content : last.response.content[k] # last.input

\* the body of the 500 carries the text of the exception under "error"
C19_Failure ==
    /\ last.path = "unhandled"
    /\ last.response.status = 500
    /\ last.response.content.detail = "Internal server error"
    /\ last.response.content.error = "password authentication failed for user admin"

\* every run of whitespace of s replaced by one space
RECURSIVE Collapsed(_)
Collapsed(s) ==
    IF s = <<>> THEN <<>>
    ELSE IF s[1] \notin {" ", "\t", "\n"} THEN <<s[1]>> \o Collapsed(Tail(s))
    ELSE IF Len(s) > 1 /\ s[2] \in {" ", "\t", "\n"} THEN Collapsed(Tail(s))
    ELSE <<" ">> \o Collapsed(Tail(s))

\* the whitespace-normalized text: runs of whitespace collapsed, none at
\* either end
Normalized(s) ==
    LET c == Collapsed(s)
        from == IF c # <<>> /\ c[1] = " " THEN 2 ELSE 1
        to == IF c # <<>> /\ c[Len(c)] = " " THEN Len(c) - 1 ELSE Len(c)
    IN  SubSeq(c, from, to)

\* the chunks put one after the other with one space between neighbours
RECURSIVE SpaceJoined(_)
SpaceJoined(chunks) ==
    IF chunks = <<>> THEN <<>>
    ELSE IF Len(chunks) = 1 THEN chunks[1]
    ELSE chunks[1] \o <<" ">> \o SpaceJoined(Tail(chunks))

\* C20: for every text and chunk size, the chunks of chunk_text joined with a
\* single space are exactly the whitespace-normalized text; no chunk is
\* empty; an empty or whitespace-only text gives zero chunks.
C20_ChunksRejoin ==
    last.path = "chunk" =>
        /\ SpaceJoined(last.chunks) = Normalized(last.text)
        /\ \A i \in 1..Len(last.chunks) : last.chunks[i] # <<>>
        /\ IsBlank(last.text) => last.chunks = <<>>

\* a text with a run of two spaces and a trailing newline, cut into two
\* chunks of one word
C20_Witness ==
    /\ last.path = "chunk"
    /\ last.text = <<"a", " ", " ", "b", "\n">>
    /\ last.chunk_size = 2
    /\ last.chunks = << <<"a">>, <<"b">> >>

\* the length of the first word of a chunk
FirstWordLen(chunk) ==
    IF \E i \in 1..Len(chunk) : chunk[i] = " "
    THEN (CHOOSE i \in 1..Len(chunk) :
            /\ chunk[i] = " "
            /\ \A j \in 1..(i - 1) : chunk[j] # " ") - 1
    ELSE Len(chunk)

\* C22: every chunk of chunk_text is at most chunk_size long unless it is a
\* single word longer than chunk_size, and a new chunk is started exactly
\* when the running chunk, one space and the next word together would be
\* longer than chunk_size: a chunk of several words fits, and the chunk
\* before a boundary could not have taken the word after it.  The rule is the
\* same at the first boundary and at every later one.
C22_ChunkSizeRule ==
    last.path = "chunk" =>
        /\ \A i \in 1..Len(last.chunks) :
            \/ Len(last.chunks[i]) <= last.chunk_size
            \/ /\ Len(last.chunks[i]) > last.chunk_size
               /\ \A j \in 1..Len(last.chunks[i]) : last.chunks[i][j] # " "
        /\ \A i \in 1..(Len(last.chunks) - 1) :
            Len(last.chunks[i]) + 1 + FirstWordLen(last.chunks[i + 1]) > last.chunk_size

\* "a b" with chunk size 3: the two words and their separator are three
\* characters long, and the first chunk is closed after "a" all the same
C22_Failure ==
    /\ last.path = "chunk"
    /\ last.text = <<"a", " ", "b">>
    /\ last.chunk_size = 3
    /\ last.chunks = << <<"a">>, <<"b">> >>

\* every upstream call of the batch brings an embedding
AllEmbedded(outcomes) == \A i \in 1..Len(outcomes) : outcomes[i].kind = "embedding"

\* C21: when every upstream call succeeds, get_embeddings returns one vector
\* per input text, the i-th made from what the model emitted for the i-th
\* text, each of exactly VECTOR_DIMENSION components: the first
\* VECTOR_DIMENSION components of an upstream vector at least that long, the
\* whole upstream vector followed by zeros otherwise.
C21_EmbeddingsFit ==
    (last.path = "embed" /\ AllEmbedded(last.outcomes)) =>
        /\ ~last.result.raised
        /\ Len(last.result.embeddings) = Len(last.texts)
        /\ \A i \in 1..Len(last.texts) :
            LET upstream == Titan(last.texts[i], last.outcomes[i].m)
                embedding == last.result.embeddings[i]
            IN  /\ Len(embedding) = VECTOR_DIMENSION
                /\ \A j \in 1..VECTOR_DIMENSION :
                    embedding[j] = IF j <= Len(upstream) THEN upstream[j] ELSE 0

\* a batch of three texts whose upstream vectors are one too long, one too
\* short and of the right length
C21_Witness ==
    /\ last.path = "embed"
    /\ last.texts = << <<"a">>, <<"b">>, <<"a">> >>
    /\ last.outcomes = <<[kind |-> "embedding", m |-> VECTOR_DIMENSION + 1],
                         [kind |-> "embedding", m |-> VECTOR_DIMENSION - 1],
                         [kind |-> "embedding", m |-> VECTOR_DIMENSION]>>
    /\ ~last.result.raised
    /\ Len(last.result.embeddings) = 3
    /\ Len(last.result.embeddings[1]) = VECTOR_DIMENSION
    /\ last.result.embeddings[1][VECTOR_DIMENSION] = 10000 + VECTOR_DIMENSION
    /\ last.result.embeddings[2][1] = 20001
    /\ last.result.embeddings[2][VECTOR_DIMENSION] = 0

\* i is the first upstream call of the batch that brings no embedding
FirstFailure(outcomes, i) ==
    /\ i \in 1..Len(outcomes)
    /\ outcomes[i].kind # "embedding"
    /\ \A j \in 1..(i - 1) : outcomes[j].kind = "embedding"

\* C23: if the upstream call for the i-th text fails or brings no embedding
\* field, get_embeddings raises and returns nothing, and its upstream calls
\* are those for the first i texts and no more; create_faq_vectors and
\* create_product_vectors then raise without a put_vectors request.
C23_BatchAbortsOnFirstFailure ==
    /\ last.path = "embed" =>
        \A i \in 1..Len(last.texts) :
            FirstFailure(last.outcomes, i) =>
                /\ last.result.raised
                /\ last.result.embeddings = <<>>
                /\ last.result.calls = SubSeq(last.texts, 1, i)
    /\ last.path \in {"faq", "product"} =>
        \A i \in 1..Len(last.chunks) :
            FirstFailure(last.outcomes, i) =>
                /\ last.created.raised
                /\ last.created.result = None
                /\ last.created.put_vectors = <<>>
                /\ last.created.calls = SubSeq(last.chunks, 1, i)

\* an FAQ entry of three chunks whose second embedding call fails
C23_Witness ==
    /\ last.path = "faq"
    /\ Len(last.chunks) = 3
    /\ last.outcomes = <<[kind |-> "embedding", m |-> VECTOR_DIMENSION],
                         [kind |-> "raised", m |-> 0],
                         [kind |-> "embedding", m |-> VECTOR_DIMENSION]>>
    /\ last.put_ok
    /\ last.created.raised
    /\ Len(last.created.calls) = 2
    /\ last.created.put_vectors = <<>>

\* how many times x occurs in a sequence
Count(seq, x) == Cardinality({i \in 1..Len(seq) : seq[i] = x})

\* C24: when a broadcast has ended, every connection that was in the active
\* set when it began and is still there (a closed connection never comes
\* back, so it was there throughout) has been handed the message exactly
\* once, whatever connections arrived or left while the broadcast was
\* suspended at a send.
C24_BroadcastOnce ==
    (last.path = "broadcast" /\ last.pc = "done") =>
        \A c \in last.at_start \cap Elements(active_connections) :
            Count(last.attempts, c) = 1

\* connections 1 and 2 are active when the broadcast begins; 1 leaves while
\* the send to it is pending, and the broadcast ends without a send to 2,
\* which is still connected
C24_Failure ==
    /\ last.path = "broadcast"
    /\ last.pc = "done"
    /\ last.at_start = {1, 2}
    /\ last.attempts = <<1>>
    /\ active_connections = <<2>>
    /\ ws_pc[2] = "receive"

\* the frames sent for one inbound frame make up a whole reply: nothing (no
\* inbound frame yet), one error or pong frame, or a typing frame followed by
\* its bot_response or error frame
WholeReply(out) ==
    out \in {<<>>, <<"error">>, <<"pong">>, <<"typing", "bot_response">>,
             <<"typing", "error">>}

\* out followed by exactly one more frame, a bot_response or an error
Completes(longer, out) ==
    /\ Len(longer) = Len(out) + 1
    /\ SubSeq(longer, 1, Len(out)) = out
    /\ longer[Len(longer)] \in {"bot_response", "error"}

\* C25: on one connection the inbound frames are handled one after another.
\* While the reply to a user_message is pending after its typing frame, no
\* other inbound frame of that connection is taken and the only frame sent
\* on it is the bot_response or error frame of that same message; an inbound
\* frame is taken only when the frames sent for the previous one make up its
\* whole reply, and its own reply begins afresh.
C25_FramesInOrder ==
    [][\A c \in Conns :
        /\ ws_pc[c] = "typing" =>
            \/ ws_pc'[c] = "typing" /\ ws_out'[c] = ws_out[c] /\ ws_msg'[c] = ws_msg[c]
            \/ ws_pc'[c] = "receive" /\ Completes(ws_out'[c], ws_out[c])
        /\ (ws_pc[c] # "typing" /\ ws_out'[c] # ws_out[c] /\ ws_pc'[c] # "closed") =>
            /\ ws_pc[c] = "receive"
            /\ WholeReply(ws_out[c])
            /\ ws_out'[c] \in {<<"error">>, <<"pong">>, <<"typing">>}
      ]_vars

\* connection 1 has had a ping answered after an earlier exchange while the
\* reply to a user_message of connection 2 is still pending
C25_Witness ==
    /\ ws_pc[1] = "receive"
    /\ ws_out[1] = <<"pong">>
    /\ ws_pc[2] = "typing"
    /\ ws_out[2] = <<"typing">>
    /\ last.path = "ws"
    /\ last.response.type = "pong"

\* C26: with the handlers of several connections interleaved, every frame
\* sent in a step of the chat flow goes to the connection on which the
\* inbound frame it answers arrived, and to no other: a connection whose
\* sent frames change, other than by its own closing, is the one whose
\* inbound frame the step handles.
C26_FramesOnlyToSender ==
    [][\A d \in Conns :
        (ws_out'[d] # ws_out[d] /\ ws_pc'[d] # "closed") =>
            /\ last'.path = "ws"
            /\ last'.websocket = d
      ]_vars

\* connection 2 is sent the bot_response of its own message while
\* connection 1, still active, keeps the pong of its ping and nothing more
C26_Witness ==
    /\ last.path = "ws"
    /\ last.websocket = 2
    /\ last.response.type = "bot_response"
    /\ ws_out[2] = <<"typing", "bot_response">>
    /\ ws_out[1] = <<"pong">>
    /\ In(1, active_connections)
    /\ In(2, active_connections)

====
